---------------------------- MODULE Spec2Model ----------------------------
(***************************************************************************)
(* A model of pg-filecommenter-sourcemap.js: the pool.query interceptor    *)
(* that appends a "file=<position>" SQL comment to every query.            *)
(*                                                                         *)
(* Texts are sequences of tokens.  A token is a string that JavaScript's   *)
(* character-level operations never split: the white space token " ", the  *)
(* statement terminator ";", the three parts of an annotation comment      *)
(* ("/* file=", the position, " */") and SQL words.  File paths are        *)
(* sequences of atoms in the same way, with "/" as the separator atom.     *)
(***************************************************************************)
EXTENDS Integers, Sequences, FiniteSets, TLC

VARIABLES
    sourceMapCache,  \* the module-level Map: compiled path -> cache entry
    heap,            \* the caller's structured query objects, by reference
    inv,             \* the pool.query invocations in flight, by slot
    nCalls,          \* pool.query calls made so far
    annKind,         \* annotator harness: "string" or "object" ("-" when unused)
    annText,         \* annotator harness: the current text
    annPrev,         \* annotator harness: the text before the last annotation
    annHist,         \* annotator harness: the positions annotated with, in order
    stack,           \* frame-capture harness: the call stack captured
    picked,          \* frame-capture harness: <<what getCallerFrame returned>>
    prepareStackTrace,      \* frame-capture harness: Error.prepareStackTrace
    origPrepareStackTrace,  \* frame-capture harness: getCallerFrame's saved hook
    captureExit      \* frame-capture harness: how getCallerFrame was left

vars ==
    <<sourceMapCache, heap, inv, nCalls, annKind, annText, annPrev, annHist,
      stack, picked, prepareStackTrace, origPrepareStackTrace, captureExit>>
poolVars == <<sourceMapCache, heap, inv, nCalls>>
annVars == <<annKind, annText, annPrev, annHist>>
frameVars == <<stack, picked, prepareStackTrace, origPrepareStackTrace, captureExit>>

\* JavaScript's null, where a string or an object is expected.
Null == "null"

--------------------------------------------------------------------------
\* Bounds of the model.

\* pool.query calls in one run of the interceptor.
MaxCalls == 2
\* Pieces an input text of the annotator harness is built from.
MaxPieces == 3
\* Times the annotator harness annotates one query.
MaxAnnotations == 2
\* Caller frames below the interceptor's own frames in a captured stack.
MaxDepth == 3

--------------------------------------------------------------------------
\* Strings as token sequences.

IsSpace(tok) == tok = " "

RECURSIVE TrimStart(_)
TrimStart(s) == IF s # <<>> /\ IsSpace(Head(s)) THEN TrimStart(Tail(s)) ELSE s

RECURSIVE TrimEnd(_)
TrimEnd(s) ==
    IF s # <<>> /\ IsSpace(s[Len(s)]) THEN TrimEnd(SubSeq(s, 1, Len(s) - 1)) ELSE s

\* String.prototype.trim: white space removed at both ends.
Trim(s) == TrimEnd(TrimStart(s))

\* s.endsWith(';')
EndsWithSemi(s) == s # <<>> /\ s[Len(s)] = ";"

\* s.slice(0, -1)
DropLast(s) == IF s = <<>> THEN <<>> ELSE SubSeq(s, 1, Len(s) - 1)

\* s.replace(/;?$/, ''): one terminator removed at the end, if there is one.
StripSemi(s) == IF EndsWithSemi(s) THEN DropLast(s) ELSE s

\* s.includes(sub)
Includes(s, sub) ==
    \E i \in 1..(Len(s) + 1) :
        /\ i + Len(sub) - 1 <= Len(s)
        /\ SubSeq(s, i, i + Len(sub) - 1) = sub

--------------------------------------------------------------------------
\* The annotation comment and the two annotation forms.

\* `/* ${resolvedPosition ? 'file=' + resolvedPosition : 'file=unknown'} */`
CommentNoFallback(pos) == <<"/* file=", pos, " */">>

Comment(pos) == <<"/* file=", IF pos = Null \/ pos = "" THEN "unknown" ELSE pos, " */">>

\* The string branch of addFileCommentToQuery.
AnnotateStringAlwaysTrims(text, comment) ==
    IF EndsWithSemi(Trim(text))
    THEN DropLast(Trim(text)) \o <<" ">> \o comment \o <<";">>
    ELSE Trim(text) \o <<" ">> \o comment

AnnotateString(text, comment) ==
    IF EndsWithSemi(Trim(text))
    THEN DropLast(Trim(text)) \o <<" ">> \o comment \o <<";">>
    ELSE text \o <<" ">> \o comment

AnnotateObjectTextNoGuard(text, comment) ==
    StripSemi(Trim(text)) \o <<" ">> \o comment \o <<";">>

AnnotateObjectTextAsString(text, comment) ==
    IF ~Includes(text, comment) THEN AnnotateString(text, comment) ELSE text

\* The object branch of addFileCommentToQuery: the new value of text.text.
AnnotateObjectText(text, comment) ==
    IF ~Includes(text, comment)
    THEN StripSemi(Trim(text)) \o <<" ">> \o comment \o <<";">>
    ELSE text

\* Annotation comments in a text: "/* file=", a position, " */".
CommentCount(s) ==
    Cardinality({i \in 1..Len(s) : i + 2 <= Len(s) /\ s[i] = "/* file=" /\ s[i + 2] = " */"})

--------------------------------------------------------------------------
\* File paths and stack frames.

RECURSIVE Concat(_)
Concat(atoms) == IF atoms = <<>> THEN "" ELSE Head(atoms) \o Concat(Tail(atoms))

RECURSIVE LastSlash(_)
LastSlash(p) ==
    IF p = <<>> THEN 0 ELSE IF p[Len(p)] = "/" THEN Len(p) ELSE LastSlash(DropLast(p))

\* path.basename(fileName)
Basename(p) == Concat(SubSeq(p, LastSlash(p) + 1, Len(p)))

\* This module's own file, as deployed.
ModulePath == <<"/", "srv", "/", "pg-filecommenter-sourcemap.js">>

\* A file of a third-party dependency.
DepPath == <<"/", "srv", "/", "node_modules", "/", "pg", "/", "index.js">>

\* An application file whose directory name only contains the text node_modules.
LookalikePath == <<"/", "srv", "/", "node_modules", "_cache", "/", "job.js">>

\* Application files: without a map, and compiled ones whose map file is
\* unreadable, unparsable, good, and parsable with corrupt mappings.
AppPath == <<"/", "srv", "/", "app.js">>
LockedPath == <<"/", "srv", "/", "dist", "/", "locked.js">>
BrokenPath == <<"/", "srv", "/", "dist", "/", "broken.js">>
MainPath == <<"/", "srv", "/", "dist", "/", "main.js">>
CorruptPath == <<"/", "srv", "/", "dist", "/", "corrupt.js">>

CompiledPaths == {AppPath, LockedPath, BrokenPath, MainPath, CorruptPath}

\* A CallSite object of V8, by what getFileName, getLineNumber and
\* getColumnNumber return.  A frame of eval'd or native code has no file name.
Frame(f, l, c) == [fileName |-> f, line |-> l, column |-> c]
\* What getCallerFrame's null destructures to in resolveOriginalPosition:
\* no file name, no line, no column.
NoFrame == [fileName |-> <<>>, line |-> 0, column |-> 0]
HasFileName(fr) == fr.fileName # <<>>

\* fileName.includes('node_modules')
IncludesNodeModules(p) == \E i \in 1..Len(p) : p[i] = "node_modules"

\* fileName.endsWith('pg-filecommenter-sourcemap.js')
EndsWithModuleName(p) == p # <<>> /\ p[Len(p)] = "pg-filecommenter-sourcemap.js"

\* The test of getCallerFrame's loop.
Accepted(fr) ==
    /\ HasFileName(fr)
    /\ ~IncludesNodeModules(fr.fileName)
    /\ ~EndsWithModuleName(fr.fileName)

RECURSIVE FirstAccepted(_)
FirstAccepted(st) ==
    IF st = <<>> THEN NoFrame
    ELSE IF Accepted(Head(st)) THEN Head(st) ELSE FirstAccepted(Tail(st))

\* getCallerFrame: the first accepted frame, innermost first; null if none.
getCallerFrame(st) == FirstAccepted(st)

\* The frames of addFileCommentToQuery and patchedQuery, which are on every
\* stack getCallerFrame captures (getCallerFrame's own frame is cut off).
OwnFrames == <<Frame(ModulePath, 106, 17), Frame(ModulePath, 146, 21)>>

--------------------------------------------------------------------------
\* The file system and the source-map library, as the module sees them.

\* The map file P + '.map' of a compiled path P:
\*   "missing"     fs.existsSync is false;
\*   "unreadable"  fs.readFileSync, or the consumer's constructor, throws;
\*   "unparsable"  the promise of new SourceMapConsumer(rawMap) rejects;
\*   "ok"          a consumer is built and answers position queries;
\*   "corrupt"     a consumer is built, and its lazily decoded mappings make
\*                 originalPositionFor throw.
MapFileState(p) ==
    CASE p = LockedPath -> "unreadable"
      [] p = BrokenPath -> "unparsable"
      [] p = MainPath -> "ok"
      [] p = CorruptPath -> "corrupt"
      [] OTHER -> "missing"

\* Values of sourceMapCache.get(P), with "absent" for !sourceMapCache.has(P).
NotCached == [tag |-> "absent", of |-> <<>>]
CachedNull == [tag |-> "null", of |-> <<>>]
Consumer(p) == [tag |-> "consumer", of |-> p]

\* mapConsumer.originalPositionFor({line, column}): main.js 7:3 comes from
\* app.ts 5:10, and no other position of main.js has a mapping.
originalPositionFor(consumer, line, column) ==
    IF MapFileState(consumer.of) = "corrupt"
    THEN [threw |-> TRUE, source |-> Null, line |-> 0, column |-> 0]
    ELSE IF consumer.of = MainPath /\ line = 7 /\ column = 3
    THEN [threw |-> FALSE, source |-> "app.ts", line |-> 5, column |-> 10]
    ELSE [threw |-> FALSE, source |-> Null, line |-> 0, column |-> 0]

\* `${path.basename(fileName)}:${line}:${column}`
CompiledPositionFullPath(fr) ==
    Concat(fr.fileName) \o ":" \o ToString(fr.line) \o ":" \o ToString(fr.column)

CompiledPosition(fr) ==
    Basename(fr.fileName) \o ":" \o ToString(fr.line) \o ":" \o ToString(fr.column)

\* `${originalPos.source}:${originalPos.line}:${originalPos.column}`
OriginalPositionSourceOnly(op) == op.source

OriginalPosition(op) ==
    op.source \o ":" \o ToString(op.line) \o ":" \o ToString(op.column)

\* resolveOriginalPosition's guard: !fileName || !line || !column
FrameUnusable(fr) == fr.fileName = <<>> \/ fr.line = 0 \/ fr.column = 0

--------------------------------------------------------------------------
\* JavaScript values that pool.query is called with.

Undefined == [type |-> "undefined", id |-> "-"]
QueryValues == [type |-> "array", id |-> "values"]
Callback == [type |-> "function", id |-> "callback"]

\* Query payloads.  An object payload is a reference into heap.
StringQuery(t) == [kind |-> "string", text |-> t, ref |-> "-"]
ObjectQuery(r) == [kind |-> "object", text |-> <<>>, ref |-> r]
NullQuery == [kind |-> "null", text |-> <<>>, ref |-> "-"]
UndefinedQuery == [kind |-> "undefined", text |-> <<>>, ref |-> "-"]
NumberQuery == [kind |-> "number", text |-> <<>>, ref |-> "-"]

\* typeof text === 'object'
TypeofObject(q) == q.kind \in {"object", "null"}

\* The caller's objects: q1 is {text: 'SELECT 1', name: 'q1'}, q2 has no text
\* field, q3 has the empty text '' and q4 is {text: ' SELECT 2; ', name: 'q4'}.
Refs == {"q1", "q2", "q3", "q4"}
InitialHeap ==
    [r \in Refs |->
        CASE r = "q1" -> [hasText |-> TRUE, text |-> <<"SELECT 1">>, name |-> "q1"]
          [] r = "q2" -> [hasText |-> FALSE, text |-> <<>>, name |-> "q2"]
          [] r = "q4" -> [hasText |-> TRUE, text |-> <<" ", "SELECT 2", ";", " ">>,
                          name |-> "q4"]
          [] OTHER -> [hasText |-> TRUE, text |-> <<>>, name |-> "q3"]]

\* text.text, as a condition: the field is there and is not ''.
TextTruthy(obj) == obj.hasText /\ obj.text # <<>>

Payloads ==
    {StringQuery(<<"SELECT NOW()", ";">>), NullQuery, UndefinedQuery, NumberQuery}
        \cup {ObjectQuery(r) : r \in Refs}

\* The call shapes (text), (text, values), (text, callback) and
\* (text, values, callback), as the second and third argument.
Shapes ==
    {<<Undefined, Undefined>>, <<QueryValues, Undefined>>,
     <<Callback, Undefined>>, <<QueryValues, Callback>>}

\* The stacks pool.query is called on: from each compiled file at 7:3, from
\* main.js at 9:1, and from a dependency with no application frame below.
CallStacks ==
    {OwnFrames \o <<Frame(p, 7, 3)>> : p \in CompiledPaths}
        \cup {OwnFrames \o <<Frame(MainPath, 9, 1)>>,
              OwnFrames \o <<Frame(DepPath, 1, 1)>>}

--------------------------------------------------------------------------
\* One pool.query invocation.

\* Invocations are held in slots; a slot is free again once its caller is
\* done with the invocation.  Spec's caller uses slot 1 only.
Slots == {1, 2}

\* A promise's state and, once settled, its value or reason.
Pending == [state |-> "pending", value |-> "-"]
Fulfilled(v) == [state |-> "fulfilled", value |-> v]
Rejected(e) == [state |-> "rejected", value |-> e]
NoPromise == [state |-> "none", value |-> "-"]

\* How the wrapped pool.query can settle.
WrappedOutcomes == {Fulfilled("rows"), Rejected("dbError")}

\* The fields of an invocation: where it stands (pc), the arguments of the
\* call, the locals of patchedQuery, addFileCommentToQuery and
\* resolveOriginalPosition, what the annotation threw ("-" if nothing), the
\* calls made to the wrapped pool.query and to the callback, the state of
\* the wrapped call's promise and of the value returned to the caller, and
\* the invocation's place among the pool.query calls (order) and whether
\* loadSourceMapForFile answered it from the cache (cacheHit).
Idle ==
    [pc |-> "idle", query |-> UndefinedQuery, arg2 |-> Undefined, arg3 |-> Undefined,
     values |-> Undefined, callback |-> Undefined, returned |-> NoPromise,
     frame |-> NoFrame, consumer |-> CachedNull, pos |-> Null, threw |-> "-",
     newQuery |-> UndefinedQuery, forwarded |-> <<>>, wrapped |-> NoPromise,
     cbCalls |-> <<>>, order |-> 0, cacheHit |-> FALSE]

\* if (callback): a function is truthy, undefined is not.
Truthy(v) == v.type # "undefined"

\* What patchedQuery returns to its caller: nothing with a callback, the
\* promise without one.
ReturnedAtCall(callback) == IF Truthy(callback) THEN NoPromise ELSE Pending

\* promise.then(res => callback(null, res), err => callback(err)), or the
\* returned promise itself: `outcome` is how `promise` settles.
DeliverNoErrback(rec, outcome) ==
    IF Truthy(rec.callback)
    THEN [rec EXCEPT !.pc = "done",
                     !.cbCalls = IF outcome.state = "fulfilled"
                                 THEN Append(@, <<Null, outcome.value>>)
                                 ELSE @]
    ELSE [rec EXCEPT !.pc = "done", !.returned = outcome]

Deliver(rec, outcome) ==
    IF Truthy(rec.callback)
    THEN [rec EXCEPT !.pc = "done",
                     !.cbCalls = Append(@, IF outcome.state = "fulfilled"
                                           THEN <<Null, outcome.value>>
                                           ELSE <<outcome.value>>)]
    ELSE [rec EXCEPT !.pc = "done", !.returned = outcome]

\* patchedQuery's first lines: query(text, callback) is shifted.
NormalizeNoShift(a2, a3) == [values |-> a2, callback |-> a3]

Normalize(a2, a3) ==
    IF a2.type = "function"
    THEN [values |-> Undefined, callback |-> a2]
    ELSE [values |-> a2, callback |-> a3]

\* sourceMapCache.has(jsFilePath) and sourceMapCache.get(jsFilePath).
CacheHasNever(f) == FALSE

CacheHas(f) == sourceMapCache[f].tag # "absent"
CacheGet(f) == sourceMapCache[f]

\* patchedQuery up to its return, which takes addFileCommentToQuery,
\* resolveOriginalPosition and loadSourceMapForFile to their first await:
\* the frame is captured, and the map is looked up in the cache, found
\* missing, found unreadable, or read and handed to SourceMapConsumer.
Call(i, q, a2, a3, st) ==
    LET n == Normalize(a2, a3)
        fr == getCallerFrame(st)
        f == fr.fileName
        rec == [Idle EXCEPT !.query = q, !.arg2 = a2, !.arg3 = a3,
                            !.values = n.values,
                            !.callback = n.callback,
                            !.returned = ReturnedAtCall(n.callback),
                            !.frame = fr,
                            !.order = nCalls + 1]
    IN  /\ inv[i].pc = "idle"
        /\ nCalls < MaxCalls
        /\ nCalls' = nCalls + 1
        /\ IF FrameUnusable(fr)
           THEN /\ inv' = [inv EXCEPT ![i] = [rec EXCEPT !.pc = "translated"]]
                /\ UNCHANGED sourceMapCache
           ELSE IF CacheHas(f)
           THEN /\ inv' = [inv EXCEPT ![i] = [rec EXCEPT !.pc = "loaded",
                                                          !.consumer = CacheGet(f),
                                                          !.cacheHit = TRUE]]
                /\ UNCHANGED sourceMapCache
           ELSE IF MapFileState(f) \in {"missing", "unreadable"}
           THEN /\ inv' = [inv EXCEPT ![i] = [rec EXCEPT !.pc = "loaded",
                                                          !.consumer = CachedNull]]
                /\ sourceMapCache' = [sourceMapCache EXCEPT ![f] = CachedNull]
           ELSE /\ inv' = [inv EXCEPT ![i] = [rec EXCEPT !.pc = "parsing"]]
                /\ UNCHANGED sourceMapCache
        /\ UNCHANGED heap

\* What loadSourceMapForFile stores and returns once the consumer's promise
\* has settled: the parsed map, or null from the catch block.
LoadedEntryUnparsed(f) == [tag |-> "raw", of |-> f]

LoadedEntry(f) == IF MapFileState(f) = "unparsable" THEN CachedNull ELSE Consumer(f)

\* loadSourceMapForFile after `await new SourceMapConsumer(rawMap)`.
ParseDone(i) ==
    LET f == inv[i].frame.fileName
    IN  /\ inv[i].pc = "parsing"
        /\ sourceMapCache' = [sourceMapCache EXCEPT ![f] = LoadedEntry(f)]
        /\ inv' = [inv EXCEPT ![i].pc = "loaded", ![i].consumer = LoadedEntry(f)]
        /\ UNCHANGED <<heap, nCalls>>

\* resolveOriginalPosition after `await loadSourceMapForFile(fileName)`.  A
\* throw of originalPositionFor is caught nowhere: it rejects the promise of
\* addFileCommentToQuery, and so `promise`.
Translate(i) ==
    LET rec == inv[i]
        op == originalPositionFor(rec.consumer, rec.frame.line, rec.frame.column)
    IN  /\ rec.pc = "loaded"
        /\ inv' = [inv EXCEPT ![i] =
              IF rec.consumer.tag # "consumer"
              THEN [rec EXCEPT !.pc = "translated", !.pos = CompiledPosition(rec.frame)]
              ELSE IF op.threw
              THEN Deliver([rec EXCEPT !.threw = "mappingError"], Rejected("mappingError"))
              ELSE IF op.source # Null
              THEN [rec EXCEPT !.pc = "translated", !.pos = OriginalPosition(op)]
              ELSE [rec EXCEPT !.pc = "translated", !.pos = CompiledPosition(rec.frame)]]
        /\ UNCHANGED <<sourceMapCache, heap, nCalls>>

\* addFileCommentToQuery after `await resolveOriginalPosition(frame)`.  With
\* text null, typeof text is 'object' and reading text.text throws.
Annotate(i) ==
    LET rec == inv[i]
        q == rec.query
        comment == Comment(rec.pos)
    IN  /\ rec.pc = "translated"
        /\ IF q.kind = "string"
           THEN /\ inv' = [inv EXCEPT ![i] =
                      [rec EXCEPT !.pc = "annotated",
                                  !.newQuery = StringQuery(AnnotateString(q.text, comment))]]
                /\ UNCHANGED heap
           ELSE IF TypeofObject(q) /\ q.kind = "null"
           THEN /\ inv' = [inv EXCEPT ![i] =
                      Deliver([rec EXCEPT !.threw = "typeError"], Rejected("typeError"))]
                /\ UNCHANGED heap
           ELSE IF TypeofObject(q) /\ TextTruthy(heap[q.ref])
           THEN /\ heap' = [heap EXCEPT ![q.ref].text = AnnotateObjectText(@, comment)]
                /\ inv' = [inv EXCEPT ![i] = [rec EXCEPT !.pc = "annotated", !.newQuery = q]]
           ELSE /\ inv' = [inv EXCEPT ![i] = [rec EXCEPT !.pc = "annotated", !.newQuery = q]]
                /\ UNCHANGED heap
        /\ UNCHANGED <<sourceMapCache, nCalls>>

\* The text the wrapped path reads from a query at the time it is called.
TextOf(q) ==
    IF q.kind = "string" THEN q.text
    ELSE IF q.kind = "object" /\ heap[q.ref].hasText THEN heap[q.ref].text
    ELSE <<>>

\* The arguments of origQuery.call(pool, newText, newValues).
ForwardedArgs(rec) == <<rec.newQuery, rec.values>>

\* The .then of patchedQuery: the wrapped pool.query is called.
ForwardInOrder(i) ==
    LET rec == inv[i]
    IN  /\ rec.pc = "annotated"
        /\ \A j \in Slots :
              (inv[j].pc # "idle" /\ inv[j].order < rec.order)
                  => inv[j].pc \in {"executing", "done"}
        /\ inv' = [inv EXCEPT ![i] =
              [rec EXCEPT !.pc = "executing",
                          !.wrapped = Pending,
                          !.forwarded = Append(@, [args |-> ForwardedArgs(rec),
                                                   text |-> TextOf(rec.newQuery)])]]
        /\ UNCHANGED <<sourceMapCache, heap, nCalls>>

Forward(i) ==
    LET rec == inv[i]
    IN  /\ rec.pc = "annotated"
        /\ inv' = [inv EXCEPT ![i] =
              [rec EXCEPT !.pc = "executing",
                          !.wrapped = Pending,
                          !.forwarded = Append(@, [args |-> ForwardedArgs(rec),
                                                   text |-> TextOf(rec.newQuery)])]]
        /\ UNCHANGED <<sourceMapCache, heap, nCalls>>

\* The wrapped pool.query settles, and `promise` with it.
WrappedSettles(i, outcome) ==
    /\ inv[i].pc = "executing"
    /\ inv' = [inv EXCEPT ![i] = Deliver([inv[i] EXCEPT !.wrapped = outcome], outcome)]
    /\ UNCHANGED <<sourceMapCache, heap, nCalls>>

\* The caller is done with a settled invocation.
Return(i) ==
    /\ inv[i].pc = "done"
    /\ inv' = [inv EXCEPT ![i] = Idle]
    /\ UNCHANGED <<sourceMapCache, heap, nCalls>>

--------------------------------------------------------------------------
\* The interceptor, with a caller that awaits each query before the next.

AnnUnused == annKind = "-" /\ annText = <<>> /\ annPrev = <<>> /\ annHist = <<>>
FrameUnused ==
    /\ stack = <<>>
    /\ picked = <<>>
    /\ prepareStackTrace = "undefined"
    /\ origPrepareStackTrace = "-"
    /\ captureExit = "no"
PoolUnused ==
    /\ sourceMapCache = [p \in CompiledPaths |-> NotCached]
    /\ heap = InitialHeap
    /\ inv = [i \in Slots |-> Idle]
    /\ nCalls = 0

Init == PoolUnused /\ AnnUnused /\ FrameUnused

Next ==
    \/ \E q \in Payloads, sh \in Shapes, st \in CallStacks :
          Call(1, q, sh[1], sh[2], st) /\ UNCHANGED <<annVars, frameVars>>
    \/ ParseDone(1) /\ UNCHANGED <<annVars, frameVars>>
    \/ Translate(1) /\ UNCHANGED <<annVars, frameVars>>
    \/ Annotate(1) /\ UNCHANGED <<annVars, frameVars>>
    \/ Forward(1) /\ UNCHANGED <<annVars, frameVars>>
    \/ \E o \in WrappedOutcomes : WrappedSettles(1, o) /\ UNCHANGED <<annVars, frameVars>>
    \/ Return(1) /\ UNCHANGED <<annVars, frameVars>>

Spec == Init /\ [][Next]_vars

--------------------------------------------------------------------------
\* The interceptor with callers that do not await: up to two invocations
\* are in flight at a time, and their continuations run in any order.

\* A string and the shared query object q1, passed as query(text).
ConcPayloads == {StringQuery(<<"SELECT NOW()", ";">>), ObjectQuery("q1")}

\* Call sites without a map (app.js), with a map (main.js, at a mapped and
\* at an unmapped position) and with a map that does not parse (broken.js).
ConcStacks ==
    {OwnFrames \o <<Frame(AppPath, 7, 3)>>,
     OwnFrames \o <<Frame(MainPath, 7, 3)>>,
     OwnFrames \o <<Frame(MainPath, 9, 1)>>,
     OwnFrames \o <<Frame(BrokenPath, 7, 3)>>}

ConcNext ==
    \/ \E i \in Slots, q \in ConcPayloads, st \in ConcStacks :
          Call(i, q, Undefined, Undefined, st) /\ UNCHANGED <<annVars, frameVars>>
    \/ \E i \in Slots : ParseDone(i) /\ UNCHANGED <<annVars, frameVars>>
    \/ \E i \in Slots : Translate(i) /\ UNCHANGED <<annVars, frameVars>>
    \/ \E i \in Slots : Annotate(i) /\ UNCHANGED <<annVars, frameVars>>
    \/ \E i \in Slots : Forward(i) /\ UNCHANGED <<annVars, frameVars>>
    \/ \E i \in Slots, o \in WrappedOutcomes :
          WrappedSettles(i, o) /\ UNCHANGED <<annVars, frameVars>>
    \/ \E i \in Slots : Return(i) /\ UNCHANGED <<annVars, frameVars>>

SpecConc == Init /\ [][ConcNext]_vars

--------------------------------------------------------------------------
\* The annotator on its own: addFileCommentToQuery's rewriting of a string,
\* or of the text field of one object, applied to bounded input texts and
\* again to its own output.

AnnPositions == {Null, "app.js:7:3", "app.ts:5:10"}

AnnPieces ==
    {<<"SELECT 1">>, <<" ">>, <<";">>, Comment(Null), Comment("app.js:7:3")}

RECURSIVE TextsOf(_)
TextsOf(n) ==
    IF n = 0 THEN {<<>>}
    ELSE LET shorter == TextsOf(n - 1)
         IN  shorter \cup {t \o piece : t \in shorter, piece \in AnnPieces}

\* The text addFileCommentToQuery forwards for a string, or leaves in the
\* text field of an object (an object whose text is '' is passed through).
AnnotatedText(kind, text, pos) ==
    IF kind = "string" THEN AnnotateString(text, Comment(pos))
    ELSE IF text # <<>> THEN AnnotateObjectText(text, Comment(pos))
    ELSE text

AnnInit ==
    /\ annKind \in {"string", "object"}
    /\ annText \in TextsOf(MaxPieces)
    /\ annPrev = <<>>
    /\ annHist = <<>>
    /\ PoolUnused /\ FrameUnused

AnnotateStep(pos) ==
    /\ Len(annHist) < MaxAnnotations
    /\ annPrev' = annText
    /\ annText' = AnnotatedText(annKind, annText, pos)
    /\ annHist' = Append(annHist, pos)
    /\ UNCHANGED <<annKind, poolVars, frameVars>>

AnnNext == \E pos \in AnnPositions : AnnotateStep(pos)

SpecAnnotate == AnnInit /\ [][AnnNext]_vars

--------------------------------------------------------------------------
\* Frame capture on its own: getCallerFrame on bounded stacks.

\* The files a caller frame can be in; <<>> is a frame without a file name.
FrameFiles == {ModulePath, DepPath, LookalikePath, AppPath, MainPath, <<>>}

\* The stack of a call that came through frames in the files fs, innermost
\* first, below the interceptor's own frames.
StackThrough(fs) == OwnFrames \o [k \in 1..Len(fs) |-> Frame(fs[k], 10 + k, k)]

RECURSIVE FileSeqs(_)
FileSeqs(n) ==
    IF n = 0 THEN {<<>>}
    ELSE LET shorter == FileSeqs(n - 1)
         IN  shorter \cup {Append(fs, f) : fs \in shorter, f \in FrameFiles}

\* What Error.prepareStackTrace can hold when getCallerFrame is entered:
\* nothing, or a hook the application (or a library) has installed.
HooksBefore == {"undefined", "appHook"}

\* (_, stack) => stack, the replacement getCallerFrame installs.
RawStackHook == "rawStack"

FrameInit ==
    /\ stack \in {StackThrough(fs) : fs \in FileSeqs(MaxDepth)}
    /\ picked = <<>>
    /\ prepareStackTrace \in HooksBefore
    /\ origPrepareStackTrace = "-"
    /\ captureExit = "no"
    /\ PoolUnused /\ AnnUnused

\* getCallerFrame when nothing throws: the hook is saved, replaced, and put
\* back after err.stack has been read; then the frames are searched.
Capture ==
    /\ captureExit = "no"
    /\ origPrepareStackTrace' = prepareStackTrace
    /\ prepareStackTrace' = origPrepareStackTrace'
    /\ picked' = <<getCallerFrame(stack)>>
    /\ captureExit' = "returned"
    /\ UNCHANGED <<stack, poolVars, annVars>>

\* getCallerFrame when new Error(), Error.captureStackTrace or the read of
\* err.stack throws (a RangeError on an exhausted call stack, a TypeError
\* where Error.captureStackTrace is no function): the statements between
\* the replacement and the restore are in no try/finally, so the function
\* is left before the restore.
CaptureThrows ==
    /\ captureExit = "no"
    /\ origPrepareStackTrace' = prepareStackTrace
    /\ prepareStackTrace' = RawStackHook
    /\ captureExit' = "threw"
    /\ UNCHANGED <<stack, picked, poolVars, annVars>>

FrameNext == Capture \/ CaptureThrows

SpecFrames == FrameInit /\ [][FrameNext]_vars

--------------------------------------------------------------------------
\* Properties of the interceptor (Spec).

\* C1: every invocation reaches the wrapped pool.query exactly once, whatever
\* happens while its position is resolved: a settled invocation has made one
\* call to the wrapped path, and no invocation ever makes two.  (Stated for
\* the payloads other than null, whose annotation is C5's matter.)
C1_ForwardedExactlyOnce ==
    \A i \in Slots :
        /\ Len(inv[i].forwarded) <= 1
        /\ (inv[i].pc = "done" /\ inv[i].query.kind # "null")
              => Len(inv[i].forwarded) = 1

\* C4: the text the wrapped pool.query is called with never holds more than
\* one annotation comment and ends in exactly one terminator, however often
\* and from whichever call sites a query object is passed to pool.query.
C4_RetryNeverDuplicates ==
    \A i \in Slots : \A k \in 1..Len(inv[i].forwarded) :
        LET t == inv[i].forwarded[k].text
        IN  t # <<>> =>
              /\ CommentCount(t) <= 1
              /\ EndsWithSemi(t)
              /\ ~EndsWithSemi(DropLast(t))

\* The payloads addFileCommentToQuery is not meant to recognize: neither a
\* string nor an object with a usable text field.
Unrecognized(q) ==
    \/ q.kind \in {"null", "undefined", "number"}
    \/ q.kind = "object" /\ ~TextTruthy(InitialHeap[q.ref])

\* C5: for an unrecognized payload the annotation does not throw and returns
\* the payload as it is, and the wrapped pool.query is called with that same
\* payload and the caller's values.
C5_UnrecognizedPassedThrough ==
    \A i \in Slots :
        Unrecognized(inv[i].query) =>
            /\ inv[i].threw # "typeError"
            /\ inv[i].pc = "annotated" => inv[i].newQuery = inv[i].query
            /\ \A k \in 1..Len(inv[i].forwarded) :
                  inv[i].forwarded[k].args = <<inv[i].query, inv[i].values>>

\* C6: with a callback, pool.query returns nothing and the callback is called
\* exactly once per invocation, and not before `promise` has settled: with
\* (null, result) when the wrapped path fulfilled with result, with (error)
\* when it rejected with error.
C6_CallbackCalledOnce ==
    \A i \in Slots :
        LET r == inv[i]
        IN  (r.pc # "idle" /\ (r.arg2.type = "function" \/ r.arg3.type = "function")) =>
              /\ r.returned = NoPromise
              /\ r.pc # "done" => r.cbCalls = <<>>
              /\ r.pc = "done" => Len(r.cbCalls) = 1
              /\ (r.pc = "done" /\ r.wrapped.state = "fulfilled")
                    => r.cbCalls = <<<<Null, r.wrapped.value>>>>
              /\ (r.pc = "done" /\ r.wrapped.state = "rejected")
                    => r.cbCalls = <<<<r.wrapped.value>>>>

\* C6's case: an invocation in the shape (text, callback) has settled after
\* the wrapped path rejected, and the callback got that error, once.
C6_Witness ==
    /\ inv[1].pc = "done"
    /\ inv[1].arg2 = Callback
    /\ inv[1].wrapped = Rejected("dbError")
    /\ inv[1].cbCalls = <<<<"dbError">>>>

\* C7: without a callback, the promise pool.query returned settles exactly as
\* the wrapped pool.query did: once the invocation is settled, the two have
\* the same state and the same value.
C7_PromiseMirrorsWrapped ==
    \A i \in Slots :
        LET r == inv[i]
        IN  (r.pc # "idle" /\ ~Truthy(r.callback)) =>
              /\ r.returned.state # "none"
              /\ r.pc = "done" => r.returned = r.wrapped
              /\ r.pc # "done" => r.returned = Pending

\* C8: the wrapped pool.query is called with exactly two arguments, the
\* annotated query and the caller's values: the second argument of the call
\* unless that is the callback, and undefined then.
C8_ForwardedArguments ==
    \A i \in Slots : \A k \in 1..Len(inv[i].forwarded) :
        LET r == inv[i]
            args == r.forwarded[k].args
        IN  /\ Len(args) = 2
            /\ args[1] = r.newQuery
            /\ args[2] = (IF r.arg2 = Callback THEN Undefined ELSE r.arg2)
            /\ args[2].type # "function"

\* C8's case: a call in the shape (text, callback) has been forwarded.
C8_Witness ==
    /\ inv[1].arg2 = Callback
    /\ Len(inv[1].forwarded) = 1
    /\ inv[1].forwarded[1].args[2] = Undefined

\* The compiled files whose map is missing, unreadable or unparsable, and the
\* compiled position of the call made from each.
MapUnavailable(f) == MapFileState(f) \in {"missing", "unreadable", "unparsable"}
ExpectedCompiledPosition(f) ==
    CASE f = AppPath -> "app.js:7:3"
      [] f = LockedPath -> "locked.js:7:3"
      [] f = BrokenPath -> "broken.js:7:3"
      [] OTHER -> "-"

\* C10: with the map of the frame's file missing, unreadable or unparsable,
\* resolveOriginalPosition does not throw, the cache records null, and the
\* position is <base name>:<line>:<column>, never the full path.
C10_MapFailureGivesCompiledPosition ==
    \A i \in Slots :
        LET r == inv[i]
            f == r.frame.fileName
        IN  (~FrameUnusable(r.frame) /\ MapUnavailable(f)) =>
              /\ r.threw # "mappingError"
              /\ r.pc \notin {"idle", "parsing"} => sourceMapCache[f] = CachedNull
              /\ r.pc \notin {"idle", "parsing", "loaded"}
                    => r.pos = ExpectedCompiledPosition(f)

\* C10's case: a call from the file with the unparsable map has been resolved.
C10_Witness ==
    /\ inv[1].pc = "translated"
    /\ inv[1].frame.fileName = BrokenPath
    /\ inv[1].pos = "broken.js:7:3"

--------------------------------------------------------------------------
\* Properties of the annotator (SpecAnnotate).

\* C2: a string query that ends in ";" (trailing white space ignored) is
\* annotated to a string that ends in exactly one ";", holds exactly one
\* annotation comment, and has that comment right before the ";".
C2_StringOneCommentOneTerminator ==
    (annKind = "string" /\ Len(annHist) = 1 /\ EndsWithSemi(TrimEnd(annPrev))) =>
        LET n == Len(annText)
        IN  /\ annText[n] = ";"
            /\ annText[n - 1] # ";"
            /\ SubSeq(annText, n - 3, n - 1) = Comment(annHist[1])
            /\ CommentCount(annText) = 1

\* C3: annotating an object a second time with the same position leaves its
\* text as the first annotation left it.
C3_ReannotateIdempotent ==
    (annKind = "object" /\ Len(annHist) >= 2
        /\ annHist[Len(annHist)] = annHist[Len(annHist) - 1])
      => annText = annPrev

\* C3's case: the first annotation added the comment, the second one, with
\* the same position, changed nothing.
C3_Witness ==
    /\ annKind = "object"
    /\ annHist = <<"app.js:7:3", "app.js:7:3">>
    /\ annText = <<"SELECT 1", " ", "/* file=", "app.js:7:3", " */", ";">>
    /\ annPrev = annText

--------------------------------------------------------------------------
\* Properties of frame capture (SpecFrames).

\* A file inside a node_modules directory.
InsideNodeModules(p) ==
    \E k \in 2..(Len(p) - 1) : p[k - 1] = "/" /\ p[k] = "node_modules" /\ p[k + 1] = "/"

\* A frame the caller position may be taken from: it has a file, which is
\* neither this module nor inside a node_modules directory.
Qualifies(fr) ==
    /\ HasFileName(fr)
    /\ fr.fileName # ModulePath
    /\ ~InsideNodeModules(fr.fileName)

\* C9: getCallerFrame returns the innermost qualifying frame of the stack:
\* never an excluded frame, never skipping a qualifying one, and null only
\* if no frame qualifies.
C9_FirstQualifyingFrame ==
    picked # <<>> =>
        \/ /\ picked[1] = NoFrame
           /\ \A k \in 1..Len(stack) : ~Qualifies(stack[k])
        \/ \E k \in 1..Len(stack) :
              /\ picked[1] = stack[k]
              /\ Qualifies(stack[k])
              /\ \A j \in 1..(k - 1) : ~Qualifies(stack[j])

--------------------------------------------------------------------------
\* Further properties of the interceptor (Spec).

\* An invocation whose position has been resolved.
Resolved(r) == r.pc \in {"translated", "annotated", "executing", "done"}

\* C11: with a parsed map for the frame's file, a position the map has a
\* source for resolves to <source>:<line>:<column> of the original, not to the
\* compiled position; a position it has no source for resolves to the
\* compiled position <base name>:<line>:<column>.
C11_MapHitGivesOriginalPosition ==
    \A i \in Slots :
        LET r == inv[i]
        IN  (Resolved(r) /\ r.consumer = Consumer(MainPath) /\ r.threw # "mappingError") =>
              /\ r.frame = Frame(MainPath, 7, 3)
                    => (r.pos = "app.ts:5:10" /\ r.pos # "main.js:7:3")
              /\ r.frame = Frame(MainPath, 9, 1) => r.pos = "main.js:9:1"

\* C11's case: the call from main.js 7:3 has been resolved through the map.
C11_Witness ==
    /\ inv[1].pc = "translated"
    /\ inv[1].frame = Frame(MainPath, 7, 3)
    /\ inv[1].consumer = Consumer(MainPath)
    /\ inv[1].pos = "app.ts:5:10"

\* C12: without a usable caller frame the position is null and no map is
\* looked up (nothing is cached, nothing parsed), nothing is thrown for it,
\* the text forwarded holds /* file=unknown */ (for a string, right before
\* its terminator), and the query is forwarded (for every payload but null,
\* which line 120 throws on whatever the frame); {text: 'SELECT 1'} is
\* forwarded with the text SELECT 1 /* file=unknown */;
C12_NoFrameGivesUnknown ==
    \A i \in Slots :
        LET r == inv[i]
        IN  (r.pc # "idle" /\ FrameUnusable(r.frame)) =>
              /\ r.pos = Null
              /\ r.consumer = CachedNull
              /\ r.pc \notin {"parsing", "loaded"}
              /\ r.threw # "mappingError"
              /\ nCalls = 1 => \A p \in CompiledPaths : sourceMapCache[p] = NotCached
              /\ (r.pc = "done" /\ r.query.kind # "null") => Len(r.forwarded) = 1
              /\ \A k \in 1..Len(r.forwarded) :
                    LET t == r.forwarded[k].text
                    IN  t # <<>> =>
                          /\ Includes(t, <<"/* file=", "unknown", " */">>)
                          /\ EndsWithSemi(t)
                          /\ r.query.kind = "string" =>
                                SubSeq(t, Len(t) - 3, Len(t))
                                    = <<"/* file=", "unknown", " */", ";">>
              /\ (nCalls = 1 /\ r.query = ObjectQuery("q1") /\ r.forwarded # <<>>)
                    => r.forwarded[1].text =
                          <<"SELECT 1", " ", "/* file=", "unknown", " */", ";">>

\* C12's case: {text: 'SELECT 1'} has been forwarded from a call with no
\* qualifying frame.
C12_Witness ==
    /\ inv[1].frame = NoFrame
    /\ inv[1].query = ObjectQuery("q1")
    /\ inv[1].pc = "executing"
    /\ inv[1].forwarded[1].text = <<"SELECT 1", " ", "/* file=", "unknown", " */", ";">>

\* C17: translating a position never throws to the caller: when the
\* consumer's position query fails, the position is the compiled one.
C17_TranslationNeverThrows ==
    \A i \in Slots :
        LET r == inv[i]
        IN  /\ r.threw # "mappingError"
            /\ (r.pc = "done" /\ r.frame.fileName = CorruptPath /\ r.query.kind # "null")
                  => r.pos = "corrupt.js:7:3"

--------------------------------------------------------------------------
\* Properties of concurrent invocations (SpecConc).

\* An invocation that has been called and has not settled yet.
InFlight(r) == r.pc \notin {"idle", "done"}

\* C13: the query an invocation forwards carries the position of its own
\* caller frame, and never the position of another invocation that is in
\* flight at the time and was called from elsewhere.
C13_ForwardedCarriesOwnPosition ==
    \A i \in Slots : \A k \in 1..Len(inv[i].forwarded) :
        LET t == inv[i].forwarded[k].text
        IN  /\ Includes(t, Comment(inv[i].pos))
            /\ \A j \in Slots \ {i} :
                  (InFlight(inv[j]) /\ Resolved(inv[j]) /\ inv[j].pos # inv[i].pos)
                      => ~Includes(t, Comment(inv[j].pos))

\* C14: a lookup for a path that has a cache entry (a consumer or a recorded
\* absence) returns that entry at once, with no parse started and the cache
\* left alone; and an entry, once there, is never removed or changed.
C14_CachedEntryReused ==
    [][/\ \A i \in Slots :
             LET f == inv'[i].frame.fileName
             IN  (/\ inv[i].pc = "idle"
                  /\ inv'[i].pc # "idle"
                  /\ ~FrameUnusable(inv'[i].frame)
                  /\ sourceMapCache[f] # NotCached)
                     => /\ inv'[i].pc = "loaded"
                        /\ inv'[i].consumer = sourceMapCache[f]
                        /\ sourceMapCache' = sourceMapCache
       /\ \A p \in CompiledPaths :
             sourceMapCache[p] # NotCached => sourceMapCache'[p] = sourceMapCache[p]]_vars

C14_Witness ==
    \E i \in Slots :
        /\ inv[i].cacheHit
        /\ inv[i].order = 2
        /\ inv[i].pc = "loaded"
        /\ inv[i].frame.fileName = MainPath
        /\ inv[i].consumer = Consumer(MainPath)

\* The one entry a path can validly have: the recorded absence, or the
\* consumer of its map if the map file is there and parses.
ValidEntry(p) ==
    IF MapFileState(p) \in {"ok", "corrupt"} THEN Consumer(p) ELSE CachedNull

\* A lookup for path p that has returned.
LookedUp(r, p) ==
    /\ r.pc \in {"loaded", "translated", "annotated", "executing", "done"}
    /\ ~FrameUnusable(r.frame)
    /\ r.frame.fileName = p

\* C15: whatever the interleaving of lookups, the cache holds for a path
\* nothing or its valid entry, every lookup returns the valid entry, and
\* once a lookup for the path has returned the cache holds that entry.
C15_CacheNeverPartial ==
    \A p \in CompiledPaths :
        /\ sourceMapCache[p] \in {NotCached, ValidEntry(p)}
        /\ \A i \in Slots :
              LookedUp(inv[i], p) =>
                  /\ inv[i].consumer = ValidEntry(p)
                  /\ sourceMapCache[p] = ValidEntry(p)

\* Two first-time lookups for main.js in a race: one has returned, the
\* other is still parsing.
C15_Witness ==
    /\ inv[1].pc = "parsing" /\ inv[1].frame.fileName = MainPath
    /\ LookedUp(inv[2], MainPath) /\ ~inv[2].cacheHit
    /\ sourceMapCache[MainPath] = Consumer(MainPath)

\* C20: no invocation waits for another: each continuation of an invocation
\* can run whatever the other invocations are doing, so a query called later
\* can reach the wrapped pool.query first.
C20_NoInvocationWaits ==
    \A i \in Slots :
        /\ inv[i].pc = "parsing" => ENABLED ParseDone(i)
        /\ inv[i].pc = "loaded" => ENABLED Translate(i)
        /\ inv[i].pc = "translated" => ENABLED Annotate(i)
        /\ inv[i].pc = "annotated" => ENABLED Forward(i)

\* The first call is still loading its map when the second has reached the
\* wrapped pool.query.
C20_Witness ==
    /\ inv[1].order = 1 /\ inv[1].pc = "parsing"
    /\ inv[2].order = 2 /\ inv[2].pc = "executing"
    /\ Len(inv[2].forwarded) = 1 /\ inv[1].forwarded = <<>>

--------------------------------------------------------------------------
\* Further properties of frame capture (SpecFrames) and of the annotation
\* forms (SpecAnnotate, Spec).

\* C16: however getCallerFrame is left, by its return or by an error thrown
\* while the stack is captured, Error.prepareStackTrace is what it was when
\* getCallerFrame was entered.
C16_HookRestoredOnEveryExit ==
    captureExit # "no" => prepareStackTrace = origPrepareStackTrace

\* The positions of the tokens of a text that are not white space.
Ink(t) == {k \in 1..Len(t) : t[k] # " "}
Lowest(S) == CHOOSE k \in S : \A j \in S : k <= j
Highest(S) == CHOOSE k \in S : \A j \in S : k >= j

\* A text without its trailing white space, and without the white space at
\* both ends.
WithoutTrailingSpace(t) == IF Ink(t) = {} THEN <<>> ELSE SubSeq(t, 1, Highest(Ink(t)))
WithoutOuterSpace(t) ==
    IF Ink(t) = {} THEN <<>> ELSE SubSeq(t, Lowest(Ink(t)), Highest(Ink(t)))

\* A text whose last token that is not white space is the terminator.
Terminated(t) == Ink(t) # {} /\ t[Highest(Ink(t))] = ";"

\* A text without its last token.
ButLast(t) == SubSeq(t, 1, Len(t) - 1)

\* The comment of the annotator harness's last annotation.
LastComment == Comment(annHist[Len(annHist)])

\* C18 as stated: a string loses its trailing white space and nothing else;
\* if what is left ends with ';' the result is that text without the ';', a
\* space, the comment and ';', and otherwise that text followed by the
\* comment (with or without a separating space), no terminator added.
C18_StringTrailingTrimOnly ==
    (annKind = "string" /\ annHist # <<>>) =>
        LET t == WithoutTrailingSpace(annPrev)
        IN  IF Terminated(annPrev)
            THEN annText = ButLast(t) \o <<" ">> \o LastComment \o <<";">>
            ELSE annText \in {t \o LastComment, t \o <<" ">> \o LastComment}

\* C18, amended: if the string without the white space at both its ends ends
\* with ';', the result is that text without the ';', a space, the comment
\* and ';'; otherwise the result is the string as it is, nothing trimmed, a
\* space and the comment, no terminator added.
C18_StringFormAlgorithm ==
    (annKind = "string" /\ annHist # <<>>) =>
        IF Terminated(annPrev)
        THEN annText = ButLast(WithoutOuterSpace(annPrev)) \o <<" ">>
                          \o LastComment \o <<";">>
        ELSE annText = annPrev \o <<" ">> \o LastComment

\* An unterminated string with trailing white space keeps it.
C18_Witness ==
    /\ annKind = "string"
    /\ annHist = <<"app.js:7:3">>
    /\ annPrev = <<"SELECT 1", " ">>
    /\ annText = <<"SELECT 1", " ", " ", "/* file=", "app.js:7:3", " */">>

\* An Annotate step of invocation i on an object whose text is not empty and
\* does not hold the invocation's comment yet.
AnnotatesObject(i) ==
    /\ inv[i].pc = "translated"
    /\ inv'[i].pc = "annotated"
    /\ inv[i].query.kind = "object"
    /\ TextTruthy(heap[inv[i].query.ref])
    /\ ~Includes(heap[inv[i].query.ref].text, Comment(inv[i].pos))

\* A Forward step of invocation i, called with an object.
ForwardsObject(i) ==
    /\ inv[i].pc = "annotated"
    /\ inv'[i].pc = "executing"
    /\ inv[i].query.kind = "object"

\* What an Annotate step leaves alone: the other fields of the object, the
\* other objects, and the reference, which is what gets forwarded.
ObjectPassedThrough(i) ==
    LET ref == inv[i].query.ref
    IN  /\ heap'[ref].name = heap[ref].name
        /\ heap'[ref].hasText = heap[ref].hasText
        /\ \A r \in Refs \ {ref} : heap'[r] = heap[r]
        /\ inv'[i].newQuery = inv[i].query

\* C19 as stated: the text field of an annotated object is what the string
\* form makes of the same text with the same position, the rest of the
\* object is unchanged and the same object is forwarded.
C19_ObjectAnnotatedAsString ==
    [][\A i \in Slots :
          /\ AnnotatesObject(i) =>
                /\ heap'[inv[i].query.ref].text =
                      AnnotateString(heap[inv[i].query.ref].text, Comment(inv[i].pos))
                /\ ObjectPassedThrough(i)
          /\ ForwardsObject(i)
                => inv'[i].forwarded[Len(inv'[i].forwarded)].args[1] = inv[i].query]_vars

\* C19, amended: the text field becomes what the string form makes of the
\* same text if the text, trimmed, ends with ';'; if it does not, the text
\* becomes the trimmed text, a space, the comment and an added ';'.  The
\* rest of the object is unchanged and the same object is forwarded.
C19_ObjectAnnotatedAndTerminated ==
    [][\A i \in Slots :
          /\ AnnotatesObject(i) =>
                LET T == heap[inv[i].query.ref].text
                    c == Comment(inv[i].pos)
                IN  /\ heap'[inv[i].query.ref].text =
                          IF Terminated(T) THEN AnnotateString(T, c)
                          ELSE WithoutOuterSpace(T) \o <<" ">> \o c \o <<";">>
                    /\ ObjectPassedThrough(i)
          /\ ForwardsObject(i)
                => inv'[i].forwarded[Len(inv'[i].forwarded)].args[1] = inv[i].query]_vars

\* The unterminated {text: 'SELECT 1', name: 'q1'} has been annotated and
\* forwarded: its text is terminated, its name is as before.
C19_Witness ==
    /\ inv[1].pc = "executing"
    /\ inv[1].query = ObjectQuery("q1")
    /\ inv[1].pos = "app.js:7:3"
    /\ inv[1].forwarded[1].args[1] = ObjectQuery("q1")
    /\ heap["q1"] = [hasText |-> TRUE, name |-> "q1",
                     text |-> <<"SELECT 1", " ", "/* file=", "app.js:7:3", " */", ";">>]

==========================================================================
